---------------------------- MODULE Spec2Model ----------------------------
(***************************************************************************)
(* Model of the INA226 driver (package ina226).                            *)
(*                                                                         *)
(* The handle (type Ina226) holds the calibration fields rShunt and iMax;  *)
(* every method is one action.  A method's body is modelled as the set of  *)
(* its possible runs: the bus calls it makes, in order, with the outcome   *)
(* of each, and the (value, error) pair it returns.  The i2c device is the *)
(* environment: each Write or Read may fail with a transport error, and a  *)
(* Read that succeeds delivers two bytes chosen by the device.             *)
(*                                                                         *)
(* Units.  float64 quantities are modelled as exact rationals n/d:         *)
(*   rShunt            milli-ohm   (integer)                               *)
(*   iMax              milli-ampere (integer)                              *)
(*   current LSB       micro-ampere (rational)                             *)
(*   returned voltages milli-volt  (rational), as in the source            *)
(*   returned currents ampere      (rational), as in the source            *)
(* Division by zero yields +inf/-inf/nan as IEEE-754 does.  A float64 to   *)
(* uint16 conversion of a value that uint16 cannot represent is            *)
(* implementation-dependent in Go: it is a nondeterministic choice.        *)
(* float64 rounding error is not modelled.                                 *)
(*                                                                         *)
(* Every record lists its fields in the order of their first use in this   *)
(* module, which is the order TLC normalizes a record to.                  *)
(***************************************************************************)
EXTENDS Integers, Sequences, FiniteSets, TLC

VARIABLES
    rShunt,     \* Ina226.rShunt, milli-ohm
    iMax,       \* Ina226.iMax, milli-ampere
    calReg,     \* device side: <<v>> once a Calibration register write of v succeeded, else <<>>
    calFresh,   \* the most recent Calibrate call's register write succeeded
    calArgs,    \* arguments of the most recent Calibrate call, <<0, 0>> before any
    op          \* the last method call: name, arguments, bus calls, returned error and value

vars == <<rShunt, iMax, calReg, calFresh, calArgs, op>>

----------------------------------------------------------------------------
(* Bounds of the model *)

\* longest list of options handed to Configure
MaxConfs == 2

----------------------------------------------------------------------------
(* Registers address map *)

CONFIG_REG == 0
SHUNTVOLTAGE_REG == 1
BUSVOLTAGE_REG == 2
CURRENT_REG == 4
CALIBRATION_REG == 5
MANUFACTURERID_REG == 254

(* Configuration register helper constants: value << shift *)

ModeShift == 0
ShuntConvShift == 3
BusConvShift == 6
AveragesShift == 9
RstShift == 15

Pow2(n) == 2 ^ n

INA226_RST == 1 * Pow2(RstShift)

----------------------------------------------------------------------------
(* Integer helpers *)

Abs(x) == IF x < 0 THEN 0 - x ELSE x

RECURSIVE GCD(_, _)
GCD(a, b) == IF b = 0 THEN a ELSE GCD(b, a % b)

RECURSIVE Pow10(_)
Pow10(n) == IF n = 0 THEN 1 ELSE 10 * Pow10(n - 1)

\* bitwise OR of two 16-bit words (Go's | on uint16)
RECURSIVE BitOr(_, _)
BitOr(a, b) ==
    IF a = 0 THEN b
    ELSE IF b = 0 THEN a
    ELSE (IF (a % 2 = 1) \/ (b % 2 = 1) THEN 1 ELSE 0) + 2 * BitOr(a \div 2, b \div 2)

\* the 3-bit field of word w that starts at bit shift
Field(w, shift) == (w \div Pow2(shift)) % 8

Range(s) == {s[i] : i \in 1..Len(s)}

----------------------------------------------------------------------------
(* float64 values: exact rationals in lowest terms, and the IEEE specials *)

Fin(n, d) ==
    LET g == GCD(Abs(n), d)
    IN  [n |-> n \div g, d |-> d \div g, k |-> "fin"]

PosInf == [n |-> 0, d |-> 1, k |-> "+inf"]
NegInf == [n |-> 0, d |-> 1, k |-> "-inf"]
NaN == [n |-> 0, d |-> 1, k |-> "nan"]
Zero == Fin(0, 1)

\* float64(i) * x for an integer i
FMulInt(i, x) ==
    IF x.k = "fin" THEN
        LET g == GCD(Abs(i), x.d)
        IN  Fin((i \div g) * x.n, x.d \div g)
    ELSE IF x.k = "nan" \/ i = 0 THEN NaN
    ELSE IF (x.k = "+inf") = (i > 0) THEN PosInf
    ELSE NegInf

\* x <= y for finite x, y
FLeq(x, y) == x.n * y.d <= y.n * x.d

----------------------------------------------------------------------------
(* The i2c device (github.com/saljam/i2c): the environment of the driver *)

Nil == "nil"

\* errors a Write or a Read of the device may return
TransportErrors == {"EIO", "ENXIO"}

\* 16-bit register contents the device may deliver
SampleWords == {0, 100, 128, 1000, 32768, 65535}

\* what a read of register reg may deliver: any sample word, and for the
\* Calibration register the value last written to it
DeviceWords(reg) ==
    SampleWords \cup (IF reg = CALIBRATION_REG THEN Range(calReg) ELSE {})

\* device.Write(frame): one bus call and its outcome
DeviceWrite(frame) ==
    {[kind |-> "write", bytes |-> frame, err |-> e] : e \in {Nil} \cup TransportErrors}

\* device.Read(buf) with len(buf) = n after register reg was selected: on
\* success the device sends the register's high byte, then its low byte
DeviceRead(reg, n) ==
    {[kind |-> "read", bytes |-> [i \in 1..n |-> 0], err |-> e] : e \in TransportErrors}
    \cup
    {[kind |-> "read", bytes |-> SubSeq(<<w \div 256, w % 256>>, 1, n), err |-> Nil] :
        w \in DeviceWords(reg)}

----------------------------------------------------------------------------
(* The driver.  Each method is the set of its runs [err, bus, val]. *)

\* faulty variant: low byte first
wordToByteArrayLE(w) == <<w % 256, (w \div 256) % 256>>

wordToByteArray(w) == <<(w \div 256) % 256, w % 256>>

\* faulty variant: configuration = conf, each option overwriting the word
OrAllAssign(confs) == IF confs = <<>> THEN 0 ELSE confs[Len(confs)]

\* the loop of Configure: configuration |= conf for each conf, from 0
RECURSIVE OrAll(_)
OrAll(confs) ==
    IF confs = <<>> THEN 0
    ELSE BitOr(OrAll(SubSeq(confs, 1, Len(confs) - 1)), confs[Len(confs)])

Configure(confs) ==
    LET configuration == OrAll(confs)
        buf == <<CONFIG_REG>> \o wordToByteArray(configuration)
    IN  {[err |-> c.err, bus |-> <<c>>, val |-> Zero] : c \in DeviceWrite(buf)}

Reset ==
    LET buf == <<CONFIG_REG>> \o wordToByteArray(INA226_RST)
    IN  {[err |-> c.err, bus |-> <<c>>, val |-> Zero] : c \in DeviceWrite(buf)}

\* faulty variant: the register is selected twice before the read
readRegister16Reselect(reg) ==
    LET sel == DeviceWrite(<<reg>>)
    IN  {[err |-> w.err, bus |-> <<w>>, val |-> 0] : w \in {x \in sel : x.err # Nil}}
        \cup
        {[err |-> r.err,
          bus |-> <<w, w, r>>,
          val |-> IF r.err = Nil THEN r.bytes[1] * 256 + r.bytes[2] ELSE 0] :
            w \in {x \in sel : x.err = Nil}, r \in DeviceRead(reg, 2)}

\* faulty variant: the error of the register select is ignored
readRegister16IgnoreSelectError(reg) ==
    {[err |-> r.err,
      bus |-> <<w, r>>,
      val |-> IF r.err = Nil THEN r.bytes[1] * 256 + r.bytes[2] ELSE 0] :
        w \in DeviceWrite(<<reg>>), r \in DeviceRead(reg, 2)}

readRegister16(reg) ==
    LET sel == DeviceWrite(<<reg>>)
    IN  {[err |-> w.err, bus |-> <<w>>, val |-> 0] : w \in {x \in sel : x.err # Nil}}
        \cup
        {[err |-> r.err,
          bus |-> <<w, r>>,
          val |-> IF r.err = Nil THEN r.bytes[1] * 256 + r.bytes[2] ELSE 0] :
            w \in {x \in sel : x.err = Nil}, r \in DeviceRead(reg, 2)}

readCalibrationRegister == readRegister16(CALIBRATION_REG)

ReadManufacturerRegister == readRegister16(MANUFACTURERID_REG)

\* faulty variant: the register taken as unsigned
Int16Unsigned(w) == w

\* Go's int16(w) of a uint16 w: two's complement
Int16(w) == IF w >= 32768 THEN w - 65536 ELSE w

\* 1.25 and 0.0025, the voltage LSBs (milli-volt per count)
BusVoltageLSB == Fin(125, 100)
ShuntVoltageLSB == Fin(25, 10000)

ReadBusVoltage ==
    {[err |-> x.err, bus |-> x.bus,
      val |-> IF x.err = Nil THEN FMulInt(x.val, BusVoltageLSB) ELSE Zero] :
        x \in readRegister16(BUSVOLTAGE_REG)}

ReadShuntVoltage ==
    {[err |-> x.err, bus |-> x.bus,
      val |-> IF x.err = Nil THEN FMulInt(Int16(x.val), ShuntVoltageLSB) ELSE Zero] :
        x \in readRegister16(SHUNTVOLTAGE_REG)}

ReadShuntCurrentRegister ==
    {[err |-> x.err, bus |-> x.bus,
      val |-> IF x.err = Nil THEN Int16(x.val) ELSE 0] :
        x \in readRegister16(CURRENT_REG)}

\* the error CurrentResolution builds with errors.New when rShunt <= 0
ErrNotCalibrated == "rShunt value is not correct. Must be greater than 0"

\* 0.00512, in micro-ampere x milli-ohm (0.00512 V = 5120000 uA * mOhm)
CalScale == 5120000
\* micro-ampere per ampere
MicroPerUnit == 1000000
\* milli-ampere per ampere, milli-ohm per ohm: the units of iMax and rShunt
MilliPerUnit == 1000

\* faulty variant: 0.00512 / float64(calibration), the shunt resistance left out
ResolutionNoShunt(calibration, r) ==
    IF calibration = 0 THEN PosInf
    ELSE LET s == Fin(CalScale, MicroPerUnit)
         IN  Fin(s.n, s.d * calibration)

\* 0.00512 / (float64(calibration) * rShunt), in ampere, for rShunt > 0
Resolution(calibration, r) ==
    IF calibration * r = 0 THEN PosInf
    ELSE LET s == Fin(CalScale, MicroPerUnit)
         IN  Fin(s.n, s.d * calibration * r)

\* faulty variant: only a negative rShunt is refused
CurrentResolutionNegativeOnly ==
    IF rShunt < 0 THEN {[err |-> ErrNotCalibrated, bus |-> <<>>, val |-> Zero]}
    ELSE {[err |-> x.err, bus |-> x.bus,
           val |-> IF x.err = Nil THEN Resolution(x.val, rShunt) ELSE Zero] :
             x \in readCalibrationRegister}

CurrentResolution ==
    IF rShunt <= 0 THEN {[err |-> ErrNotCalibrated, bus |-> <<>>, val |-> Zero]}
    ELSE {[err |-> x.err, bus |-> x.bus,
           val |-> IF x.err = Nil THEN Resolution(x.val, rShunt) ELSE Zero] :
             x \in readCalibrationRegister}

ReadShuntCurrent ==
    LET raw == ReadShuntCurrentRegister
    IN  {[err |-> c.err, bus |-> c.bus, val |-> Zero] : c \in {x \in raw : x.err # Nil}}
        \cup
        {[err |-> r.err,
          bus |-> c.bus \o r.bus,
          val |-> IF r.err = Nil THEN FMulInt(c.val, r.val) ELSE Zero] :
            c \in {x \in raw : x.err = Nil}, r \in CurrentResolution}

----------------------------------------------------------------------------
(* Calibrate *)

\* 32768, the divisor of iMax
LSBDivisor == 32768

\* math.Floor(math.Log10(x)) for a finite x > 0: the e with 10^e <= x < 10^(e+1)
RECURSIVE FloorLog10Up(_, _)
FloorLog10Up(x, e) ==
    IF x.d * Pow10(e + 1) <= x.n THEN FloorLog10Up(x, e + 1) ELSE e

RECURSIVE FloorLog10Down(_, _)
FloorLog10Down(x, k) ==
    IF x.n * Pow10(k) >= x.d THEN 0 - k ELSE FloorLog10Down(x, k + 1)

FloorLog10(x) ==
    IF x.n >= x.d THEN FloorLog10Up(x, 0) ELSE FloorLog10Down(x, 1)

\* math.Ceil(n / d) for n >= 0, d > 0
CeilDiv(n, d) == (n + d - 1) \div d

\* iMax / 32768 * 1000000: the ideal current LSB in micro-ampere, for iMax > 0
IdealLSB(iMaxValue) == Fin(iMaxValue * (MicroPerUnit \div MilliPerUnit), LSBDivisor)

\* currentLSB_approx: Ceil(mantissa) * 10^Floor(Log10(currentLSB)), micro-ampere
ApproxLSB(iMaxValue) ==
    LET currentLSB == IdealLSB(iMaxValue)
        e == FloorLog10(currentLSB)
        mantissaCeil == IF e >= 0 THEN CeilDiv(currentLSB.n, currentLSB.d * Pow10(e))
                        ELSE CeilDiv(currentLSB.n * Pow10(0 - e), currentLSB.d)
    IN  IF e >= 0 THEN Fin(mantissaCeil * Pow10(e), 1)
        ELSE Fin(mantissaCeil, Pow10(0 - e))

\* 0.00512 / (currentLSB * rShunt) with currentLSB back in ampere
CalQuotient(r, iMaxValue) ==
    IF iMaxValue <= 0 THEN NaN                \* Log10 of 0 or of a negative
    ELSE IF r = 0 THEN PosInf
    ELSE LET a == ApproxLSB(iMaxValue)
             s == IF r > 0 THEN 1 ELSE 0 - 1
         IN  Fin(s * CalScale * a.d, a.n * Abs(r))

\* uint16(q) of a float64 q: truncation toward zero when uint16 can hold the
\* result; otherwise implementation-dependent (wrap-around, saturation and
\* zero are the outcomes builds produce)
ToUint16(q) ==
    LET t == IF q.n >= 0 THEN q.n \div q.d ELSE 0 - ((0 - q.n) \div q.d)
    IN  IF q.k = "fin" /\ t >= 0 /\ t <= 65535 THEN {t}
        ELSE {0, 65535} \cup (IF q.k = "fin" THEN {t % 65536} ELSE {})

Calibrate(rShuntValue, iMaxValue) ==
    {[err |-> c.err, bus |-> <<c>>, val |-> Zero] :
        c \in UNION {DeviceWrite(<<CALIBRATION_REG>> \o wordToByteArray(calibrationValue)) :
                        calibrationValue \in ToUint16(CalQuotient(rShuntValue, iMaxValue))}}

----------------------------------------------------------------------------
(* Callers' inputs *)

\* an option of Configure: <<shift, v>> stands for the constant v << shift
Options == {ModeShift, ShuntConvShift, BusConvShift, AveragesShift} \X (0..7)

Constant(o) == o[2] * Pow2(o[1])

Constants(opts) == [i \in 1..Len(opts) |-> Constant(opts[i])]

\* every list of at most MaxConfs options
ConfLists == UNION {[1..n -> Options] : n \in 0..MaxConfs}

\* the lists the example program passes (the second one is commented out there)
ExampleConfs ==
    {<<<<ShuntConvShift, 4>>, <<BusConvShift, 4>>, <<AveragesShift, 0>>, <<ModeShift, 7>>>>,
     <<<<ModeShift, 0>>>>}

\* <<rShunt in milli-ohm, iMax in milli-ampere>> pairs handed to Calibrate:
\* the example program's (0.01 ohm, 0.5 A) and pairs around it; a sub-micro-
\* ampere LSB; quotients that are not integers, that exceed 65535, that are
\* below 1; a zero and a negative resistance; a zero current
CalibrateInputs ==
    {<<10, 500>>, <<100, 500>>, <<15, 500>>, <<500, 10>>, <<10, 2000>>,
     <<2, 500>>, <<1000, 200000>>, <<0, 500>>, <<0 - 10, 500>>, <<10, 0>>}

----------------------------------------------------------------------------
(* The state machine *)

Call(name, args, x, val) ==
    op' = [err |-> x.err, bus |-> x.bus, val |-> val, name |-> name, args |-> args]

\* the device's Calibration register after the bus calls of a run: a
\* successful 3-byte write to it stores the word; a successful write of the
\* reset bit to the Configuration register clears it
RECURSIVE DeviceAfter(_, _)
DeviceAfter(bus, reg) ==
    IF bus = <<>> THEN reg
    ELSE LET c == Head(bus)
             now == IF c.kind = "write" /\ c.err = Nil /\ Len(c.bytes) = 3
                    THEN IF c.bytes[1] = CALIBRATION_REG
                         THEN <<c.bytes[2] * 256 + c.bytes[3]>>
                         ELSE IF c.bytes[1] = CONFIG_REG /\ c.bytes[2] >= 128
                              THEN <<0>>
                              ELSE reg
                    ELSE reg
         IN  DeviceAfter(Tail(bus), now)

Init ==
    /\ rShunt = 0
    /\ iMax = 0
    /\ calReg = <<>>
    /\ calFresh = FALSE
    /\ calArgs = <<0, 0>>
    /\ op = [err |-> Nil, bus |-> <<>>, val |-> Zero, name |-> "New", args |-> <<>>]

ConfigureWith(opts) ==
    \E x \in Configure(Constants(opts)) :
        /\ Call("Configure", opts, x, Zero)
        /\ calReg' = DeviceAfter(x.bus, calReg)
        /\ UNCHANGED <<rShunt, iMax, calFresh, calArgs>>

CallConfigure == \E opts \in ExampleConfs : ConfigureWith(opts)

\* the call of Configure that InitConfigure holds ready
CallConfigurePending == op.name = "Configure?" /\ ConfigureWith(op.args)

CallReset ==
    \E x \in Reset :
        /\ Call("Reset", <<>>, x, Zero)
        /\ calReg' = DeviceAfter(x.bus, calReg)
        /\ calFresh' = (calFresh /\ x.err # Nil)
        /\ UNCHANGED <<rShunt, iMax, calArgs>>

\* faulty variant: the arguments are stored only when the register write succeeds
CallCalibrateStoreOnSuccess ==
    \E in \in CalibrateInputs :
        \E x \in Calibrate(in[1], in[2]) :
            /\ rShunt' = IF x.err = Nil THEN in[1] ELSE rShunt
            /\ iMax' = IF x.err = Nil THEN in[2] ELSE iMax
            /\ calArgs' = in
            /\ Call("Calibrate", in, x, Zero)
            /\ calReg' = DeviceAfter(x.bus, calReg)
            /\ calFresh' = (x.err = Nil)

CallCalibrate ==
    \E in \in CalibrateInputs :
        \E x \in Calibrate(in[1], in[2]) :
            /\ rShunt' = in[1]
            /\ iMax' = in[2]
            /\ calArgs' = in
            /\ Call("Calibrate", in, x, Zero)
            /\ calReg' = DeviceAfter(x.bus, calReg)
            /\ calFresh' = (x.err = Nil)

CallReadBusVoltage ==
    \E x \in ReadBusVoltage :
        /\ Call("ReadBusVoltage", <<>>, x, x.val)
        /\ UNCHANGED <<rShunt, iMax, calReg, calFresh, calArgs>>

CallReadShuntVoltage ==
    \E x \in ReadShuntVoltage :
        /\ Call("ReadShuntVoltage", <<>>, x, x.val)
        /\ UNCHANGED <<rShunt, iMax, calReg, calFresh, calArgs>>

CallCurrentResolution ==
    \E x \in CurrentResolution :
        /\ Call("CurrentResolution", <<>>, x, x.val)
        /\ UNCHANGED <<rShunt, iMax, calReg, calFresh, calArgs>>

CallReadShuntCurrentRegister ==
    \E x \in ReadShuntCurrentRegister :
        /\ Call("ReadShuntCurrentRegister", <<>>, x, Fin(x.val, 1))
        /\ UNCHANGED <<rShunt, iMax, calReg, calFresh, calArgs>>

CallReadShuntCurrent ==
    \E x \in ReadShuntCurrent :
        /\ Call("ReadShuntCurrent", <<>>, x, x.val)
        /\ UNCHANGED <<rShunt, iMax, calReg, calFresh, calArgs>>

CallReadManufacturerRegister ==
    \E x \in ReadManufacturerRegister :
        /\ Call("ReadManufacturerRegister", <<>>, x, Fin(x.val, 1))
        /\ UNCHANGED <<rShunt, iMax, calReg, calFresh, calArgs>>

Next ==
    \/ CallConfigure
    \/ CallReset
    \/ CallCalibrate
    \/ CallReadBusVoltage
    \/ CallReadShuntVoltage
    \/ CallCurrentResolution
    \/ CallReadShuntCurrentRegister
    \/ CallReadShuntCurrent
    \/ CallReadManufacturerRegister

Spec == Init /\ [][Next]_vars

\* Configure alone: a handle as constructed and one call of Configure, over
\* every list of options
InitConfigure ==
    /\ rShunt = 0
    /\ iMax = 0
    /\ calReg = <<>>
    /\ calFresh = FALSE
    /\ calArgs = <<0, 0>>
    /\ \E opts \in ConfLists :
        op = [err |-> Nil, bus |-> <<>>, val |-> Zero, name |-> "Configure?", args |-> opts]

NextConfigure == CallConfigurePending

SpecConfigure == InitConfigure /\ [][NextConfigure]_vars

----------------------------------------------------------------------------
(* Observations of the last call, used by the properties below *)

\* the 16-bit word of a 3-byte write frame, or of the 2 bytes a read delivered
FrameWord(c) == c.bytes[Len(c.bytes) - 1] * 256 + c.bytes[Len(c.bytes)]

IsWrite(c) == c.kind = "write"
IsRead(c) == c.kind = "read"

\* one bus transaction: one write, or one write followed by one read
OneTransaction(bus) ==
    \/ Len(bus) = 1 /\ IsWrite(bus[1])
    \/ Len(bus) = 2 /\ IsWrite(bus[1]) /\ IsRead(bus[2])

\* the approximated current LSB of Calibrate, in ampere
LSBAmpere(i) ==
    LET a == ApproxLSB(i)
    IN  Fin(a.n, a.d * MicroPerUnit)

\* iMax / 32768, in ampere
IdealAmpere(i) == Fin(i, LSBDivisor * MilliPerUnit)

Shifts == {ModeShift, ShuntConvShift, BusConvShift, AveragesShift}

\* the positions of opts that hold a constant of the field at shift
Supplied(opts, shift) == {i \in 1..Len(opts) : opts[i][1] = shift}

Max(S) == CHOOSE m \in S : \A x \in S : x <= m

\* bit b of v
Bit(v, b) == (v \div Pow2(b)) % 2

----------------------------------------------------------------------------
(* C1: while the stored rShunt is <= 0, CurrentResolution returns the       *)
(* not-calibrated error without any bus call, and ReadShuntCurrent returns  *)
(* an error, whatever the device holds or returns.                          *)
C1_NotCalibrated ==
    rShunt <= 0 =>
        /\ op.name = "CurrentResolution" => op.err = ErrNotCalibrated /\ op.bus = <<>>
        /\ op.name = "ReadShuntCurrent" => op.err # Nil

\* ReadShuntCurrent after a Calibrate with a negative resistance whose write
\* succeeded: the current register is read, then the call fails
C1_Witness ==
    /\ op.name = "ReadShuntCurrent"
    /\ rShunt < 0
    /\ calReg # <<>>
    /\ Len(op.bus) = 2
    /\ op.bus[2].err = Nil
    /\ op.err = ErrNotCalibrated

----------------------------------------------------------------------------
(* C2, as claimed: the word Configure writes has, in each field, the bits   *)
(* of the last-supplied constant of that field, and zero in a field no      *)
(* constant was supplied for.                                               *)
C2_LastSupplied ==
    op.name = "Configure" =>
        /\ Len(op.bus) = 1 /\ IsWrite(op.bus[1])
        /\ Len(op.bus[1].bytes) = 3 /\ op.bus[1].bytes[1] = 0
        /\ \A shift \in Shifts :
            Field(FrameWord(op.bus[1]), shift) =
                IF Supplied(op.args, shift) = {} THEN 0
                ELSE op.args[Max(Supplied(op.args, shift))][2]

(* C2, amended: the word Configure writes has, in each field, the bitwise   *)
(* OR of all the constants supplied for that field (a bit is set exactly    *)
(* when some supplied constant of the field has it set), zero in a field no *)
(* constant was supplied for, and zero in bits 15-12; so a field holds its  *)
(* last-supplied constant when one constant was supplied for it.            *)
C2_FieldOr ==
    op.name = "Configure" =>
        /\ Len(op.bus) = 1 /\ IsWrite(op.bus[1])
        /\ Len(op.bus[1].bytes) = 3 /\ op.bus[1].bytes[1] = 0
        /\ FrameWord(op.bus[1]) < 4096
        /\ \A shift \in Shifts :
            /\ \A b \in 0..2 :
                (Bit(FrameWord(op.bus[1]), shift + b) = 1) <=>
                    (\E i \in Supplied(op.args, shift) : Bit(op.args[i][2], b) = 1)
            /\ Supplied(op.args, shift) = {} => Field(FrameWord(op.bus[1]), shift) = 0
            /\ Cardinality(Supplied(op.args, shift)) = 1 =>
                Field(FrameWord(op.bus[1]), shift) = op.args[Max(Supplied(op.args, shift))][2]

\* two different operating-mode constants in one call: MODE_SHUNT_TRIG, then
\* MODE_BUS_TRIG, written as MODE_SHUNT_BUS_TRIG
C2_Witness ==
    /\ op.name = "Configure"
    /\ op.args = <<<<ModeShift, 1>>, <<ModeShift, 2>>>>
    /\ op.err = Nil
    /\ op.bus[1].bytes = <<0, 0, 3>>

----------------------------------------------------------------------------
(* C3: Reset issues a single write of the frame [0x00, 0x80, 0x00] and no   *)
(* read, in any state.                                                      *)
C3_ResetFrame ==
    op.name = "Reset" =>
        /\ Len(op.bus) = 1
        /\ IsWrite(op.bus[1])
        /\ op.bus[1].bytes = <<0, 128, 0>>

\* a Reset that succeeds on a calibrated handle
C3_Witness ==
    /\ op.name = "Reset"
    /\ op.err = Nil
    /\ rShunt > 0
    /\ calReg = <<0>>

----------------------------------------------------------------------------
(* C4, as claimed: for rShunt > 0 and iMax > 0, Calibrate writes            *)
(* [0x05, high, low] of 0.00512 / (finalLSB * rShunt) rounded to the        *)
(* nearest unsigned 16-bit integer, finalLSB being the smallest digit x     *)
(* power of ten (in micro-ampere) that is >= iMax / 32768.  Stated for the  *)
(* arguments whose rounded quotient a 16-bit register can hold.             *)
C4_RoundToNearest ==
    (op.name = "Calibrate" /\ op.args[1] > 0 /\ op.args[2] > 0) =>
        LET lsb == ApproxLSB(op.args[2])
            num == 5120000 * lsb.d
            den == lsb.n * op.args[1]
            rounded == (2 * num + den) \div (2 * den)
        IN  rounded <= 65535 =>
                /\ Len(op.bus) = 1 /\ IsWrite(op.bus[1])
                /\ Len(op.bus[1].bytes) = 3 /\ op.bus[1].bytes[1] = 5
                /\ FrameWord(op.bus[1]) = rounded

----------------------------------------------------------------------------
\* CurrentResolution or ReadShuntCurrent succeeded on a handle whose last
\* Calibrate had rShunt > 0, iMax > 0 and a successful register write, and
\* the device delivered the calibration value that was written
C5_RoundTripCase ==
    /\ op.name \in {"CurrentResolution", "ReadShuntCurrent"}
    /\ op.err = Nil
    /\ calFresh /\ rShunt > 0 /\ iMax > 0
    /\ FrameWord(op.bus[Len(op.bus)]) = calReg[1]

C5_RoundTripResult ==
    /\ op.name = "CurrentResolution" => op.val = LSBAmpere(iMax)
    /\ op.name = "ReadShuntCurrent" =>
        LET raw == FrameWord(op.bus[2])
            signed == IF raw >= 32768 THEN raw - 65536 ELSE raw
        IN  op.val = FMulInt(signed, LSBAmpere(iMax))

----------------------------------------------------------------------------
(* C6, as claimed: every accessor returns either an error or a valid,       *)
(* well-defined (finite) value; CurrentResolution and ReadShuntCurrent      *)
(* never succeed when the calibration register reads 0.                     *)
C6_ValueOrError ==
    (op.name \in {"ReadBusVoltage", "ReadShuntVoltage", "CurrentResolution",
                  "ReadShuntCurrentRegister", "ReadShuntCurrent"}
        /\ op.err = Nil) =>
            /\ op.val.k = "fin"
            /\ op.name = "CurrentResolution" => FrameWord(op.bus[2]) # 0
            /\ op.name = "ReadShuntCurrent" => FrameWord(op.bus[4]) # 0

----------------------------------------------------------------------------
(* C7, as claimed: every public operation that completes without error has  *)
(* issued exactly one bus transaction: one write, or one write followed by  *)
(* one read.                                                                *)
C7_OneTransaction ==
    (op.name # "New" /\ op.err = Nil) => OneTransaction(op.bus)

(* C7, amended: every public operation other than ReadShuntCurrent that     *)
(* completes without error has issued exactly one bus transaction (one      *)
(* write for Configure, Reset and Calibrate; one write followed by one read *)
(* for the accessors); ReadShuntCurrent has issued exactly two, each a      *)
(* write followed by a read: the Current register, then the Calibration     *)
(* register.                                                                *)
C7_Transactions ==
    (op.name # "New" /\ op.err = Nil) =>
        /\ op.name \in {"Configure", "Reset", "Calibrate"} =>
            Len(op.bus) = 1 /\ IsWrite(op.bus[1])
        /\ op.name \in {"ReadBusVoltage", "ReadShuntVoltage", "CurrentResolution",
                        "ReadShuntCurrentRegister", "ReadManufacturerRegister"} =>
            Len(op.bus) = 2 /\ IsWrite(op.bus[1]) /\ IsRead(op.bus[2])
        /\ op.name = "ReadShuntCurrent" =>
            /\ Len(op.bus) = 4
            /\ OneTransaction(SubSeq(op.bus, 1, 2)) /\ op.bus[1].bytes = <<4>>
            /\ OneTransaction(SubSeq(op.bus, 3, 4)) /\ op.bus[3].bytes = <<5>>

\* a ReadShuntCurrent that completes without error
C7_Witness ==
    /\ op.name = "ReadShuntCurrent"
    /\ op.err = Nil
    /\ Len(op.bus) = 4

----------------------------------------------------------------------------
(* C8: ReadBusVoltage returns the raw register, as an unsigned 16-bit       *)
(* value, times 1.25 (1000 -> 1250.0, 0 -> 0.0, never negative);            *)
(* ReadShuntVoltage returns the raw register, as a two's-complement signed  *)
(* 16-bit value, times 0.0025 (0x8000 -> -81.92, 100 -> 0.25).              *)
C8_VoltageScaling ==
    /\ (op.name = "ReadBusVoltage" /\ op.err = Nil) =>
        LET raw == FrameWord(op.bus[2])
        IN  /\ op.val.k = "fin"
            /\ op.val.n * 4 = raw * 5 * op.val.d
            /\ op.val.n >= 0
            /\ raw = 1000 => op.val = [n |-> 1250, d |-> 1, k |-> "fin"]
            /\ raw = 0 => op.val = [n |-> 0, d |-> 1, k |-> "fin"]
    /\ (op.name = "ReadShuntVoltage" /\ op.err = Nil) =>
        LET raw == FrameWord(op.bus[2])
            signed == IF raw >= 32768 THEN raw - 65536 ELSE raw
        IN  /\ op.val.k = "fin"
            /\ op.val.n * 400 = signed * op.val.d
            /\ raw = 32768 => op.val = [n |-> 0 - 2048, d |-> 25, k |-> "fin"]
            /\ raw = 100 => op.val = [n |-> 1, d |-> 4, k |-> "fin"]

\* the shunt voltage register holds 0x8000: -81.92 mV
C8_Witness ==
    /\ op.name = "ReadShuntVoltage"
    /\ op.err = Nil
    /\ op.bus[2].bytes = <<128, 0>>
    /\ op.val = [n |-> 0 - 2048, d |-> 25, k |-> "fin"]

----------------------------------------------------------------------------
(* C9: the stored rShunt and iMax are the arguments of the most recent      *)
(* Calibrate call, whether or not its register write succeeded, or (0, 0)   *)
(* before any; no other operation changes them.                             *)
C9_StoredArgs == <<rShunt, iMax>> = calArgs

\* an accessor called after a Calibrate(0.015, 0.5) whose write failed (the
\* device never stored a value), the fields holding the arguments
C9_Witness ==
    /\ op.name = "CurrentResolution"
    /\ calArgs = <<15, 500>>
    /\ calReg = <<>>
    /\ rShunt = 15 /\ iMax = 500

----------------------------------------------------------------------------
(* C10: within one operation the bus calls are address-select write (one    *)
(* byte) then read (two bytes, composed high << 8 | low); no bus call       *)
(* follows a failed one, and the operation returns the failed call's error; *)
(* no write or read is repeated.                                            *)
C10_BusOrder ==
    op.name # "New" =>
        /\ \A i \in 1..Len(op.bus) :
            /\ i < Len(op.bus) => op.bus[i].err = Nil
            /\ op.bus[i].err # Nil => op.err = op.bus[i].err
            /\ IsRead(op.bus[i]) =>
                /\ i > 1 /\ IsWrite(op.bus[i - 1]) /\ Len(op.bus[i - 1].bytes) = 1
                /\ Len(op.bus[i].bytes) = 2
            /\ (IsWrite(op.bus[i]) /\ Len(op.bus[i].bytes) = 1 /\ i < Len(op.bus)) =>
                IsRead(op.bus[i + 1])
            /\ \A j \in 1..Len(op.bus) :
                (i < j /\ IsWrite(op.bus[i]) /\ IsWrite(op.bus[j])) =>
                    op.bus[i].bytes # op.bus[j].bytes
        /\ (op.name \in {"ReadManufacturerRegister", "ReadShuntCurrentRegister"}
                /\ op.err = Nil) =>
            LET hi == op.bus[2].bytes[1]
                lo == op.bus[2].bytes[2]
                word == hi * 256 + lo
            IN  op.val = [n |-> IF op.name = "ReadShuntCurrentRegister" /\ word >= 32768
                                THEN word - 65536 ELSE word,
                          d |-> 1,
                          k |-> "fin"]
        /\ (op.name = "ReadShuntCurrent" /\ Len(op.bus) > 2) =>
            /\ op.bus[1].bytes = <<4>>
            /\ op.bus[3].bytes = <<5>>

\* a ReadShuntCurrent whose Current register read fails: two bus calls, the
\* read's error returned, the Calibration register never selected
C10_Witness ==
    /\ op.name = "ReadShuntCurrent"
    /\ rShunt > 0
    /\ Len(op.bus) = 2
    /\ op.bus[2].err = "ENXIO"
    /\ op.err = "ENXIO"

============================================================================
